---- MODULE Spec2Model ----
(***************************************************************************)
(* Model of lmstudio/sync_api.py: the synchronous client layered over an   *)
(* asynchronous websocket that runs in a background thread.                *)
(*                                                                         *)
(*  Spec     one Client with one Session: lazy connect, the background     *)
(*           websocket thread (_AsyncWebsocketThread), the multiplexed     *)
(*           calls and channels of caller threads, the server, transport   *)
(*           failure and session disconnect.                               *)
(*  SpecAct  the multi-round tool use loop LLM.act.                        *)
(*  SpecPred the events of one PredictionStream.                           *)
(*  SpecClient  the sessions of a Client: Client._get_session and close.   *)
(*  SpecPump the background thread step by step: its event loop, the sends *)
(*           handed to it, the receive task and its end; SpecPumpLive adds *)
(*           the fairness of the thread.                                   *)
(*  SpecCm   a session and a websocket entered and exited as context       *)
(*           managers.                                                     *)
(***************************************************************************)
EXTENDS Integers, Sequences, FiniteSets, TLC

\* ------------------------------------------------------------- bounds
Threads == {"t1", "t2"}      \* caller threads, each makes one call or channel
\* Events of the environment in one run: channelSend frames of the server,
\* cancel() and Session.disconnect() calls of the user, failed connection
\* attempts and transport failures.
MaxEnv == 2

\* SyncLMStudioWebsocket objects: each operation connects at most once.
W == 1 .. Cardinality(Threads)
Ids == 0 .. Cardinality(Threads)
NoWs == 0                    \* None, for a reference to a websocket object

VARIABLES
    stage,      \* "none" | "client" | "session": Client built / session obtained
    lmsws,      \* SyncSession._lmsws: NoWs or the websocket object
    resources,  \* SyncSession._resources: the websockets entered, in order
    nconn,      \* websocket objects created so far
    nenv,       \* events of the environment so far
    handshakes, \* authentication frames sent so far (all connections)
    ws,         \* per websocket object: SyncLMStudioWebsocket + its thread and server end
    th,         \* per caller thread: position and locals of its operation
    dis,        \* the thread running Session.disconnect(): position and object
    act,        \* LLM.act: position and locals (SpecAct)
    pred,       \* a PredictionStream, its channel and endpoint (SpecPred)
    client,     \* the Client's session map and resource stack (SpecClient)
    pump,       \* one _AsyncWebsocketThread, its event loop and the threads
                \* that call it (SpecPump)
    cm          \* a session and a websocket used as context managers (SpecCm)

vars == <<stage, lmsws, resources, nconn, nenv, handshakes, ws, th, dis, act, pred, client, pump, cm>>
muxvars == <<stage, lmsws, resources, nconn, nenv, handshakes, ws, th, dis>>

\* ------------------------------------------------------------- frames
Frame(t, i, m) == [type |-> t, id |-> i, msg |-> m]
\* The shutdown sentinel put on the receive queues (None).
Sentinel == Frame("None", 0, 0)

IsCallFrame(f) == f.type \in {"rpcResult", "rpcError"}
IsChannelFrame(f) == f.type \in {"channelSend", "channelClose"}

Range(q) == {q[k] : k \in 1 .. Len(q)}

\* queue.Queue.put
QueuePut(q, m) == Append(q, m)

\* ------------------------------------------------------------- initial state
\* A websocket object before its thread is started.
NewWs ==
    [ thread     |-> FALSE,       \* SyncLMStudioWebsocket._ws is not None
      tpc        |-> "unstarted", \* position of the background thread
      tws        |-> FALSE,       \* _AsyncWebsocketThread._ws is not None
      tloop      |-> FALSE,       \* _AsyncWebsocketThread._ws_loop is not None
      terminate  |-> FALSE,       \* _terminate
      attempted  |-> FALSE,       \* _connection_attempted
      failure    |-> "none",      \* _connection_failure / _auth_failure
      failed     |-> FALSE,       \* the receive loop saw a transport failure
      notified   |-> FALSE,       \* _notify_client_termination has run
      next_call  |-> 0,           \* multiplexer: next call id
      next_chan  |-> 0,           \* multiplexer: next channel id
      calls      |-> <<>>,        \* call ids handed out, in order
      chans      |-> <<>>,        \* channel ids handed out, in order
      called     |-> {},          \* call ids whose rpcCall was written
      created    |-> {},          \* channel ids whose channelCreate was written
      cancels    |-> [i \in Ids |-> 0], \* channelCancel frames written per channel
      rxPending  |-> <<>>,        \* frames handed to a worker thread
      rxLate     |-> FALSE,       \* the last frame was received after
                                  \* _notify_client_termination had run
      dropped    |-> FALSE,       \* _enqueue_message has returned False
      refused    |-> FALSE,       \* server: it answered the handshake with success = false
      replied    |-> {},          \* server: call ids answered
      closed     |-> {},          \* server: channel ids closed
      nsend      |-> [i \in Ids |-> 0] ] \* server: channelSend frames per channel

\* A caller thread before its operation (pc "idle", outcome "none") and
\* after it (pc "done").
EndTh(pc, outcome) ==
    [ pc          |-> pc,
      kind        |-> "none",    \* "call" | "chan"
      w           |-> NoWs,      \* the websocket object the operation uses
      id          |-> 0,         \* its call id / channel id
      registered  |-> FALSE,     \* inside the assign_*_id scope
      rx_queue    |-> <<>>,      \* its receive queue
      is_finished |-> FALSE,     \* SyncChannel._is_finished
      yielded     |-> <<>>,      \* payloads rx_stream has yielded
      delivered   |-> 0,         \* items ever put on rx_queue
      outcome     |-> outcome ]

InitMux ==
    /\ stage = "none"
    /\ lmsws = NoWs
    /\ resources = <<>>
    /\ nconn = 0
    /\ nenv = 0
    /\ handshakes = 0
    /\ ws = [w \in W |-> NewWs]
    /\ th = [t \in Threads |-> EndTh("idle", "none")]
    /\ dis = [pc |-> "idle", stack |-> <<>>]

\* ------------------------------------------------------------- multiplexer
\* MultiplexingManager: the id handed out and the counter after it.
AssignId_Stuck(next) == [id |-> next, next |-> next]
AssignId(next) == [id |-> next, next |-> next + 1]

\* The caller threads whose receive queue is registered on websocket w.
Registered(w) == {t \in Threads : th[t].registered /\ th[t].w = w}

\* MultiplexingManager.all_queues: every registered queue, channels and calls.
AllQueues(w) == Registered(w)

\* MultiplexingManager.map_rx_message: the registered queue of a frame, if any.
MapRxMessage(w, f) ==
    {t \in Registered(w) :
        /\ th[t].id = f.id
        /\ \/ th[t].kind = "call" /\ IsCallFrame(f)
           \/ th[t].kind = "chan" /\ IsChannelFrame(f)}

\* RemoteCallHandler.handle_rx_message: what receive_result does with an item.
RpcHandleRxMessage(m) ==
    CASE m.type = "None" -> "disconnected"
      [] m.type = "rpcResult" -> "result"
      [] OTHER -> "rpcerror"

\* ------------------------------------------------------------- client, session
\* Client.__init__: no session, no websocket.
ClientInit ==
    /\ stage = "none"
    /\ stage' = "client"
    /\ UNCHANGED <<lmsws, resources, nconn, nenv, handshakes, ws, th, dis, act, pred, client, pump, cm>>

\* Client._get_session: the session is built, and connects on first use only.
GetSession_Eager ==
    /\ stage = "client"
    /\ stage' = "session"
    /\ nconn' = 1
    /\ ws' = [ws EXCEPT ![1].tpc = "connecting"]
    /\ UNCHANGED <<lmsws, resources, nenv, handshakes, th, dis, act, pred, client, pump, cm>>
GetSession ==
    /\ stage = "client"
    /\ stage' = "session"
    /\ UNCHANGED <<lmsws, resources, nconn, nenv, handshakes, ws, th, dis, act, pred, client, pump, cm>>

\* SyncSession.remote_call / _create_channel, first statement:
\* _ensure_connected() connects when the session holds no websocket.
BeginOp(t, k) ==
    /\ stage = "session"
    /\ th[t].pc = "idle"
    /\ th' = [th EXCEPT ![t] =
                [th[t] EXCEPT
                    !.pc = IF lmsws = NoWs THEN "connect" ELSE "getws",
                    !.kind = k]]
    /\ UNCHANGED <<stage, lmsws, resources, nconn, nenv, handshakes, ws, dis, act, pred, client, pump, cm>>

\* SyncSession.connect: fails if connected, else builds a websocket object and
\* enters it: SyncLMStudioWebsocket.connect starts the background thread.
ConnectStart(t) ==
    /\ th[t].pc = "connect"
    /\ IF lmsws # NoWs
       THEN /\ th' = [th EXCEPT ![t] = EndTh("done", "alreadyconnected")]
            /\ UNCHANGED <<nconn, ws>>
       ELSE /\ nconn' = nconn + 1
            /\ ws' = [ws EXCEPT ![nconn + 1].tpc = "connecting"]
            /\ th' = [th EXCEPT ![t].pc = "waitconn", ![t].w = nconn + 1]
    /\ UNCHANGED <<stage, lmsws, resources, nenv, handshakes, dis, act, pred, client, pump, cm>>

\* _AsyncWebsocketThread.connect returning, then SyncLMStudioWebsocket.connect
\* and SyncSession.connect: the websocket is kept only if thread._ws and
\* thread._ws_loop are set.
ConnectFinish_KeepsFailed(t) ==
    /\ th[t].pc = "waitconn"
    /\ LET w == th[t].w IN
        /\ ws[w].attempted
        /\ lmsws' = w
        /\ resources' = Append(resources, w)
        /\ IF ws[w].tws /\ ws[w].tloop
           THEN /\ ws' = [ws EXCEPT ![w].thread = TRUE]
                /\ th' = [th EXCEPT ![t].pc = "getws"]
           ELSE /\ th' = [th EXCEPT ![t] =
                            EndTh("done", IF ws[w].failure = "auth"
                                   THEN "autherror" ELSE "connecterror")]
                /\ UNCHANGED ws
    /\ UNCHANGED <<stage, nconn, nenv, handshakes, dis, act, pred, client, pump, cm>>
ConnectFinish(t) ==
    /\ th[t].pc = "waitconn"
    /\ LET w == th[t].w IN
        /\ ws[w].attempted
        /\ IF ws[w].tws /\ ws[w].tloop
           THEN /\ ws' = [ws EXCEPT ![w].thread = TRUE]
                /\ lmsws' = w
                /\ resources' = Append(resources, w)
                /\ th' = [th EXCEPT ![t].pc = "getws"]
           ELSE /\ th' = [th EXCEPT ![t] =
                            EndTh("done", IF ws[w].failure = "auth"
                                   THEN "autherror" ELSE "connecterror")]
                /\ UNCHANGED <<ws, lmsws, resources>>
    /\ UNCHANGED <<stage, nconn, nenv, handshakes, dis, act, pred, client, pump, cm>>

\* ------------------------------------------------------------- calls, channels
\* SyncSession._get_lmsws, then assign_call_id / assign_channel_id on entry
\* (remote_call, open_channel): without a websocket the operation fails, else
\* the queue is registered under a new id of that websocket's multiplexer.
Register(t) ==
    /\ th[t].pc = "getws"
    /\ IF lmsws = NoWs
       THEN /\ th' = [th EXCEPT ![t] = EndTh("done", "nosession")]
            /\ UNCHANGED ws
       ELSE LET w == lmsws
                a == AssignId(IF th[t].kind = "call"
                              THEN ws[w].next_call ELSE ws[w].next_chan)
            IN /\ th' = [th EXCEPT ![t].pc = "send", ![t].w = w,
                                   ![t].id = a.id, ![t].registered = TRUE]
               /\ ws' = IF th[t].kind = "call"
                        THEN [ws EXCEPT ![w].next_call = a.next,
                                        ![w].calls = Append(@, a.id)]
                        ELSE [ws EXCEPT ![w].next_chan = a.next,
                                        ![w].chans = Append(@, a.id)]
    /\ UNCHANGED <<stage, lmsws, resources, nconn, nenv, handshakes, dis, act, pred, client, pump, cm>>

\* SyncLMStudioWebsocket._send_json and the thread's send_json / _send_json:
\* how sending a frame on websocket w ends.
SendJson(w) ==
    IF ~ws[w].thread THEN "assertion"          \* ws is None
    ELSE IF ~ws[w].tloop THEN "assertion"      \* loop is None
    ELSE IF ws[w].tpc = "running" THEN "sent"
    ELSE "txerror"

\* _send_call / _connect_to_endpoint: _ensure_connected, then _send_json.
SendFirstOutcome(w) == IF ~ws[w].thread THEN "notconnected" ELSE SendJson(w)

\* remote_call / open_channel: the rpcCall or channelCreate frame is sent; a
\* failure leaves the assign_*_id scope, which removes the registration.
SendFirst_LeaksOnFailure(t) ==
    /\ th[t].pc = "send"
    /\ LET w == th[t].w
           r == SendFirstOutcome(w)
       IN IF r = "sent"
          THEN /\ ws' = IF th[t].kind = "call"
                        THEN [ws EXCEPT ![w].called = @ \cup {th[t].id}]
                        ELSE [ws EXCEPT ![w].created = @ \cup {th[t].id}]
               /\ th' = [th EXCEPT ![t].pc =
                            IF th[t].kind = "call" THEN "recv" ELSE "open"]
          ELSE /\ th' = [th EXCEPT ![t].pc = "done", ![t].outcome = r]
               /\ UNCHANGED ws
    /\ UNCHANGED <<stage, lmsws, resources, nconn, nenv, handshakes, dis, act, pred, client, pump, cm>>
SendFirst(t) ==
    /\ th[t].pc = "send"
    /\ LET w == th[t].w
           r == SendFirstOutcome(w)
       IN IF r = "sent"
          THEN /\ ws' = IF th[t].kind = "call"
                        THEN [ws EXCEPT ![w].called = @ \cup {th[t].id}]
                        ELSE [ws EXCEPT ![w].created = @ \cup {th[t].id}]
               /\ th' = [th EXCEPT ![t].pc =
                            IF th[t].kind = "call" THEN "recv" ELSE "open"]
          ELSE /\ th' = [th EXCEPT ![t] = EndTh("done", r)]
               /\ UNCHANGED ws
    /\ UNCHANGED <<stage, lmsws, resources, nconn, nenv, handshakes, dis, act, pred, client, pump, cm>>

\* SyncRemoteCall.receive_result: blocks on the queue, takes one item, and
\* remote_call leaves the assign_call_id scope.
ReceiveResult(t) ==
    /\ th[t].pc = "recv"
    /\ th[t].rx_queue # <<>>
    /\ th' = [th EXCEPT ![t] = EndTh("done", RpcHandleRxMessage(Head(th[t].rx_queue)))]
    /\ UNCHANGED <<stage, lmsws, resources, nconn, nenv, handshakes, ws, dis, act, pred, client, pump, cm>>

\* SyncChannel.rx_stream, one iteration: blocks on the queue; a channelSend
\* payload is yielded, a channelClose finishes the channel, the sentinel
\* raises (ChannelHandler.handle_rx_message) and leaves the channel unfinished.
RxStream(t) ==
    /\ th[t].pc = "open"
    /\ ~th[t].is_finished
    /\ th[t].rx_queue # <<>>
    /\ LET m == Head(th[t].rx_queue)
           rest == Tail(th[t].rx_queue)
       IN th' = [th EXCEPT ![t] =
            CASE m.type = "None" ->
                    [@ EXCEPT !.rx_queue = rest, !.outcome = "disconnected"]
              [] m.type = "channelClose" ->
                    [@ EXCEPT !.rx_queue = rest, !.is_finished = TRUE]
              [] OTHER ->
                    [@ EXCEPT !.rx_queue = rest,
                              !.yielded = Append(@, m.msg)]]
    /\ UNCHANGED <<stage, lmsws, resources, nconn, nenv, handshakes, ws, dis, act, pred, client, pump, cm>>

\* SyncChannel.cancel: nothing once finished, else a channelCancel is sent.
Cancel_Finishes(t) ==
    /\ th[t].pc = "open"
    /\ nenv < MaxEnv
    /\ nenv' = nenv + 1
    /\ ws' = [ws EXCEPT ![th[t].w].cancels[th[t].id] = @ + 1]
    /\ th' = [th EXCEPT ![t].is_finished = TRUE]
    /\ UNCHANGED <<stage, lmsws, resources, nconn, handshakes, dis, act, pred, client, pump, cm>>
Cancel(t) ==
    /\ th[t].pc = "open"
    /\ nenv < MaxEnv
    /\ nenv' = nenv + 1
    /\ LET w == th[t].w IN
        IF th[t].is_finished
        THEN UNCHANGED <<th, ws>>
        ELSE IF SendJson(w) = "sent"
        THEN /\ ws' = [ws EXCEPT ![w].cancels[th[t].id] = @ + 1]
             /\ UNCHANGED th
        ELSE UNCHANGED <<th, ws>>    \* the send error is raised to the caller
    /\ UNCHANGED <<stage, lmsws, resources, nconn, handshakes, dis, act, pred, client, pump, cm>>

\* open_channel on exit: the assign_channel_id scope removes the registration.
ExitChannel(t) ==
    /\ th[t].pc = "open"
    /\ th' = [th EXCEPT ![t] = EndTh("done", th[t].outcome)]
    /\ UNCHANGED <<stage, lmsws, resources, nconn, nenv, handshakes, ws, dis, act, pred, client, pump, cm>>

\* ------------------------------------------------------------- server
\* The frames the server may send next on connection w: one answer per
\* rpcCall it has received, channelSend frames (numbered in the order they are
\* sent) and one channelClose per channel it has been asked to create. A
\* channelSend may also come late, after the channelClose of its channel.
ServerFrames(w) ==
    {Frame(type, i, 0) : type \in {"rpcResult", "rpcError"},
                         i \in ws[w].called \ ws[w].replied}
    \cup {Frame("channelSend", i, ws[w].nsend[i] + 1) :
            i \in {j \in ws[w].created : nenv < MaxEnv}}
    \cup {Frame("channelClose", i, 0) : i \in ws[w].created \ ws[w].closed}

\* The server's books once it has sent frame f.
ServerSent(r, f) ==
    CASE f.type \in {"rpcResult", "rpcError"} ->
            [r EXCEPT !.replied = @ \cup {f.id}]
      [] f.type = "channelSend" -> [r EXCEPT !.nsend[f.id] = @ + 1]
      [] OTHER -> [r EXCEPT !.closed = @ \cup {f.id}]

\* The server's books once the connection is gone.
ServerGone(r) ==
    [r EXCEPT !.replied = {}, !.closed = {}, !.nsend = [i \in Ids |-> 0]]

\* ------------------------------------------------------------- background thread
\* _main_task up to the receive loop: aconnect_ws fails (_connection_failure),
\* or the websocket and loop are set and _authenticate sends the
\* authentication frame and reads the reply: success starts the receive task,
\* a refusal sets _auth_failure to the error field of the reply (which is
\* None in "denied_none"), and a refusal or an exception closes the resources
\* (_clear_task_state) and ends the thread. _connection_attempted is set in
\* each case.
PumpConnect(w, r) ==
    /\ ws[w].tpc = "connecting"
    /\ r # "ok" => nenv < MaxEnv
    /\ nenv' = IF r = "ok" THEN nenv ELSE nenv + 1
    /\ handshakes' = IF r = "connfail" THEN handshakes ELSE handshakes + 1
    /\ ws' = CASE r = "ok" ->
                    [ws EXCEPT ![w].tpc = "running", ![w].attempted = TRUE,
                               ![w].tloop = TRUE, ![w].tws = TRUE]
               [] r = "connfail" ->
                    [ws EXCEPT ![w].tpc = "dead", ![w].attempted = TRUE,
                               ![w].failure = "conn"]
               [] r = "denied" ->
                    [ws EXCEPT ![w].tpc = "dead", ![w].attempted = TRUE,
                               ![w].failure = "auth", ![w].refused = TRUE]
               [] r = "denied_none" ->
                    [ws EXCEPT ![w].tpc = "dead", ![w].attempted = TRUE,
                               ![w].refused = TRUE]
               [] OTHER ->
                    [ws EXCEPT ![w].tpc = "dead", ![w].attempted = TRUE]
    /\ UNCHANGED <<stage, lmsws, resources, nconn, th, dis, act, pred, client, pump, cm>>

\* _process_next_message awaits the worker thread that enqueues a frame
\* before it receives the next one.
AwaitToThread_NoAwait(w) == Len(ws[w].rxPending) < 2
AwaitToThread(w) == ws[w].rxPending = <<>>

\* _process_next_message: the next frame of the server is received and
\* handed to a worker thread.
PumpReceive(w, f) ==
    /\ ws[w].tpc = "running"
    /\ f \in ServerFrames(w)
    /\ AwaitToThread(w)
    /\ ws' = [ws EXCEPT ![w] = [ServerSent(@, f) EXCEPT
                                    !.rxPending = Append(@, f),
                                    !.rxLate = ws[w].notified]]
    /\ nenv' = IF f.type = "channelSend" THEN nenv + 1 ELSE nenv
    /\ UNCHANGED <<stage, lmsws, resources, nconn, handshakes, th, dis, act, pred, client, pump, cm>>

RemoveAt(s, k) == [j \in 1 .. Len(s) - 1 |-> IF j < k THEN s[j] ELSE s[j + 1]]

\* SyncLMStudioWebsocket._enqueue_message, run by a worker thread: the frame
\* is put on the queue registered for its id, or dropped.
EnqueueMessage_Broadcast(w, k) ==
    /\ k \in 1 .. Len(ws[w].rxPending)
    /\ LET f == ws[w].rxPending[k]
           to == MapRxMessage(w, f)
       IN /\ th' = [t \in Threads |->
                    IF t \in to \/ (to = {} /\ t \in Registered(w))
                    THEN [th[t] EXCEPT !.rx_queue = QueuePut(@, f),
                                       !.delivered = @ + 1]
                    ELSE th[t]]
          /\ ws' = [ws EXCEPT ![w].rxPending = RemoveAt(@, k),
                              ![w].dropped = @ \/ to = {}]
    /\ UNCHANGED <<stage, lmsws, resources, nconn, nenv, handshakes, dis, act, pred, client, pump, cm>>
EnqueueMessage(w, k) ==
    /\ k \in 1 .. Len(ws[w].rxPending)
    /\ LET f == ws[w].rxPending[k]
           to == MapRxMessage(w, f)
       IN /\ th' = [t \in Threads |->
                    IF t \in to
                    THEN [th[t] EXCEPT !.rx_queue = QueuePut(@, f),
                                       !.delivered = @ + 1]
                    ELSE th[t]]
          /\ ws' = [ws EXCEPT ![w].rxPending = RemoveAt(@, k),
                              ![w].dropped = @ \/ to = {}]
    /\ UNCHANGED <<stage, lmsws, resources, nconn, nenv, handshakes, dis, act, pred, client, pump, cm>>

\* _receive_messages: receiving fails (the transport is gone). With the
\* websocket still set the terminate flag is set; the loop ends.
ReceiveFails(w) ==
    /\ ws[w].tpc = "running"
    /\ ws[w].rxPending = <<>>
    /\ nenv < MaxEnv
    /\ nenv' = nenv + 1
    /\ ws' = [ws EXCEPT ![w] = [ServerGone(@) EXCEPT
                        !.tpc = "rxstopped",
                        !.failed = TRUE,
                        !.terminate = IF ws[w].tws THEN TRUE ELSE @]]
    /\ UNCHANGED <<stage, lmsws, resources, nconn, handshakes, th, dis, act, pred, client, pump, cm>>

\* _main_task after _terminate.wait(): the receive task is cancelled and the
\* resources are closed (_clear_task_state, then the websocket).
PumpTeardown(w) ==
    /\ ws[w].tpc \in {"running", "rxstopped"}
    /\ ws[w].terminate
    /\ ws' = [ws EXCEPT ![w] = [ServerGone(@) EXCEPT
                        !.tpc = "cleared", !.tws = FALSE, !.tloop = FALSE]]
    /\ UNCHANGED <<stage, lmsws, resources, nconn, nenv, handshakes, th, dis, act, pred, client, pump, cm>>

\* run(): asyncio.run returns once the worker threads are done; the thread ends.
PumpExit(w) ==
    /\ ws[w].tpc = "cleared"
    /\ ws[w].rxPending = <<>>
    /\ ws' = [ws EXCEPT ![w].tpc = "dead"]
    /\ UNCHANGED <<stage, lmsws, resources, nconn, nenv, handshakes, th, dis, act, pred, client, pump, cm>>

\* ------------------------------------------------------------- disconnect
\* SyncLMStudioWebsocket._notify_client_termination: None is put on every
\* registered queue of websocket w.
NotifyClientTermination_Skipped(w) == th
NotifyClientTermination(w) ==
    [t \in Threads |->
        IF t \in AllQueues(w)
        THEN [th[t] EXCEPT !.rx_queue = QueuePut(@, Sentinel),
                           !.delivered = @ + 1]
        ELSE th[t]]

\* SyncSession.disconnect: the session forgets its websocket and closes its
\* resources, which exits every websocket entered, last one first.
SessionDisconnect_KeepsWs ==
    /\ stage = "session"
    /\ dis.pc = "idle"
    /\ resources # <<>>
    /\ nenv < MaxEnv
    /\ nenv' = nenv + 1
    /\ resources' = <<>>
    /\ dis' = [pc |-> "exit", stack |-> resources]
    /\ UNCHANGED <<stage, lmsws, nconn, handshakes, ws, th, act, pred, client, pump, cm>>
SessionDisconnect ==
    /\ stage = "session"
    /\ dis.pc = "idle"
    /\ resources # <<>>
    /\ nenv < MaxEnv
    /\ nenv' = nenv + 1
    /\ lmsws' = NoWs
    /\ resources' = <<>>
    /\ dis' = [pc |-> "exit", stack |-> resources]
    /\ UNCHANGED <<stage, nconn, handshakes, ws, th, act, pred, client, pump, cm>>

\* SyncLMStudioWebsocket.disconnect up to the call of the thread's
\* disconnect: the websocket forgets its thread and notifies the registered
\* queues.
WebsocketDisconnect ==
    /\ dis.pc = "exit"
    /\ LET w == dis.stack[Len(dis.stack)] IN
        IF ws[w].thread
        THEN /\ th' = NotifyClientTermination(w)
             /\ ws' = [ws EXCEPT ![w].thread = FALSE,
                                 ![w].notified = TRUE]
             /\ dis' = [dis EXCEPT !.pc = "term"]
        ELSE /\ dis' = [pc |-> IF Len(dis.stack) = 1 THEN "idle" ELSE "exit",
                        stack |-> SubSeq(dis.stack, 1, Len(dis.stack) - 1)]
             /\ UNCHANGED <<th, ws>>
    /\ UNCHANGED <<stage, lmsws, resources, nconn, nenv, handshakes, act, pred, client, pump, cm>>

\* _AsyncWebsocketThread.disconnect up to the join: with the thread's
\* websocket still set, the loop is asked to run _terminate_main_task, which
\* sets the terminate flag.
ThreadDisconnect ==
    /\ dis.pc = "term"
    /\ LET w == dis.stack[Len(dis.stack)] IN
        ws' = [ws EXCEPT ![w].terminate =
                            IF ws[w].tws /\ ws[w].tloop THEN TRUE ELSE @]
    /\ dis' = [dis EXCEPT !.pc = "join"]
    /\ UNCHANGED <<stage, lmsws, resources, nconn, nenv, handshakes, th, act, pred, client, pump, cm>>

\* _AsyncWebsocketThread.disconnect: join() returns when the thread has ended;
\* the next websocket of the resource stack is exited.
DisconnectJoin ==
    /\ dis.pc = "join"
    /\ ws[dis.stack[Len(dis.stack)]].tpc = "dead"
    /\ dis' = [pc |-> IF Len(dis.stack) = 1 THEN "idle" ELSE "exit",
               stack |-> SubSeq(dis.stack, 1, Len(dis.stack) - 1)]
    /\ UNCHANGED <<stage, lmsws, resources, nconn, nenv, handshakes, ws, th, act, pred, client, pump, cm>>

\* ------------------------------------------------------------- LLM.act
MaxK == 3        \* largest max_prediction_rounds tried
MaxRounds == 3   \* rounds explored when max_prediction_rounds is None
MaxReq == 2      \* tool call requests of the model in one round

\* act before it is called.
InitAct ==
    act = [ pc          |-> "off",
            limited     |-> FALSE,  \* max_prediction_rounds is not None
            max         |-> 0,      \* max_prediction_rounds
            on_message  |-> FALSE,  \* an on_message callback was given
            final       |-> -1,     \* final_round_index
            round_index |-> 0,
            started     |-> 0,      \* prediction rounds started
            tools_sent  |-> <<>>,   \* per round: tool definitions were sent
            requests    |-> 0,      \* tool_call_requests of this round
            chat        |-> <<>>,   \* messages appended to agent_chat
            invalid     |-> FALSE,  \* _handle_invalid_tool_request was called
            rounds      |-> 0,      \* ActResult.rounds
            cbs         |-> <<>>,   \* callbacks invoked in this round, in order
            tool_results |-> <<>>,  \* tool results message of this round: the
                                    \* requests (numbered 1, 2, ...) answered, in order
            completed   |-> <<>>,   \* tool calls of this round that have
                                    \* completed, in completion order
            history     |-> <<>>,   \* per round: length of the chat its
                                    \* prediction request was built from
            steps       |-> <<>>,   \* what the round did after its
                                    \* prediction, in order
            raised      |-> FALSE ] \* some callback has raised

\* final_round_index: max_prediction_rounds - 1, or -1 without a limit.
FinalRoundIndex(limited, max) == IF limited THEN max - 1 ELSE -1

\* round_counter: range(max_prediction_rounds), or itertools.count().
InRoundCounter(limited, max, r) == IF limited THEN r < max ELSE TRUE

\* The endpoint of a round gets the tool definitions unless the round is final.
ToolsSent_Always(round_index, final) == TRUE
ToolsSent(round_index, final) == round_index # final

\* The orders in which n tool calls submitted to the pool may complete.
CompletionOrders(n) ==
    {f \in [1 .. n -> 1 .. n] : \A j, k \in 1 .. n : f[j] = f[k] => j = k}

\* tool_results: the results of the futures as as_completed yields them,
\* which is the order in which the tool calls complete.
ToolResults(order) == order

\* num_rounds = round_index + 1
NumRounds_Index(round_index) == round_index
NumRounds_PlusTwo(round_index) == round_index + 2
NumRounds(round_index) == round_index + 1

\* After a round with tool call requests: on the final round the invalid
\* tool request is signalled and the loop ends, else the next round follows.
AfterToolRequests_Continue(round_index, final) == "continue"
AfterToolRequests(round_index, final) ==
    IF round_index = final THEN "invalid" ELSE "continue"

\* sdk_callback_invocation: whether the exception of a callback that raises
\* leaves the with block (it is logged and suppressed).
SdkCallbackInvocation_Reraises(raises) == raises
SdkCallbackInvocation(raises) == FALSE

\* The callbacks cbs are invoked in order, each in its own
\* sdk_callback_invocation block; those in bad raise. The callbacks invoked,
\* and whether an exception got out.
RECURSIVE InvokeCallbacks(_, _)
InvokeCallbacks(cbs, bad) ==
    IF cbs = <<>> THEN [invoked |-> <<>>, escaped |-> FALSE]
    ELSE IF SdkCallbackInvocation(Head(cbs) \in bad)
    THEN [invoked |-> <<Head(cbs)>>, escaped |-> TRUE]
    ELSE LET r == InvokeCallbacks(Tail(cbs), bad)
         IN [invoked |-> <<Head(cbs)>> \o r.invoked, escaped |-> r.escaped]

\* The callbacks of the endpoint invoked for the events of one prediction.
PredictionCallbacks == <<"prompt_processing", "first_token", "fragment">>

\* The callbacks after the prediction of a round: prediction completed, the
\* messages appended to the chat (if on_message is given), round end.
RoundEndCallbacks(requests, on_message) ==
    <<"prediction_completed">>
    \o (IF ~on_message THEN <<>>
        ELSE IF requests > 0 THEN <<"message", "message">>
        ELSE <<"message">>)
    \o <<"round_end">>

\* The round after its prediction, in the order of the code: the prediction
\* completed callback; with tool calls pending their results are awaited and
\* the assistant response and the tool results are appended to the chat,
\* without, the assistant response is appended if on_message is given; the
\* messages appended are reported to on_message; the round end callback.
RoundEndSteps_AppendFirst(requests, on_message) ==
    <<"prediction_completed">>
    \o (IF requests > 0
        THEN <<"append_requests", "append_results", "await_tools">>
             \o (IF on_message THEN <<"message", "message">> ELSE <<>>)
        ELSE IF on_message THEN <<"append_response", "message">>
        ELSE <<>>)
    \o <<"round_end">>
RoundEndSteps(requests, on_message) ==
    <<"prediction_completed">>
    \o (IF requests > 0
        THEN <<"await_tools", "append_requests", "append_results">>
             \o (IF on_message THEN <<"message", "message">> ELSE <<>>)
        ELSE IF on_message THEN <<"append_response", "message">>
        ELSE <<>>)
    \o <<"round_end">>

\* Leaving the block of the ThreadPoolExecutor shuts the pool down and waits
\* for the tool calls submitted: it returns once all of them have completed.
PoolJoined_NoWait(requests, completed) == TRUE
PoolJoined(requests, completed) == Len(completed) = requests

\* The state of act after callbacks were invoked: an exception that got out
\* ends act.
AfterCallbacks(a, r, bad) ==
    [a EXCEPT !.cbs = @ \o r.invoked,
              !.raised = @ \/ (\E k \in 1 .. Len(r.invoked) : r.invoked[k] \in bad),
              !.pc = IF r.escaped THEN "raised" ELSE @]

\* act, up to the round loop: the argument check and the round counter.
ActCall_NoCheck(limited, max, on_message) ==
    /\ act.pc = "off"
    /\ act' = [act EXCEPT !.pc = "round", !.limited = limited,
                          !.max = max, !.on_message = on_message,
                          !.final = FinalRoundIndex(limited, max)]
    /\ UNCHANGED <<muxvars, pred, client, pump, cm>>
ActCall(limited, max, on_message) ==
    /\ act.pc = "off"
    /\ IF limited /\ max < 1
       THEN act' = [act EXCEPT !.pc = "valueerror", !.limited = limited,
                               !.max = max, !.on_message = on_message]
       ELSE act' = [act EXCEPT !.pc = "round", !.limited = limited,
                               !.max = max, !.on_message = on_message,
                               !.final = FinalRoundIndex(limited, max)]
    /\ UNCHANGED <<muxvars, pred, client, pump, cm>>

\* One iteration of the round loop up to the prediction request: the round
\* start callback, then the endpoint with or without the tool definitions.
ActRoundStart(bad) ==
    /\ act.pc = "round"
    /\ InRoundCounter(act.limited, act.max, act.round_index)
    /\ act.round_index < MaxRounds
    /\ LET r == InvokeCallbacks(<<"round_start">>, bad)
           a == [act EXCEPT !.cbs = <<>>, !.tool_results = <<>>,
                            !.completed = <<>>, !.steps = <<>>]
       IN IF r.escaped
          THEN act' = AfterCallbacks(a, r, bad)
          ELSE act' = AfterCallbacks(
                        [a EXCEPT !.pc = "predict",
                                  !.started = @ + 1,
                                  !.requests = 0,
                                  !.history = Append(@, Len(act.chat)),
                                  !.tools_sent =
                                    Append(@, ToolsSent(act.round_index, act.final))],
                        r, bad)
    /\ UNCHANGED <<muxvars, pred, client, pump, cm>>

\* The prediction of the round: the model answers with n tool call requests,
\* each submitted to the pool as it arrives.
ActPredict(n, bad) ==
    /\ act.pc = "predict"
    /\ act' = AfterCallbacks([act EXCEPT !.pc = "collect", !.requests = n],
                             InvokeCallbacks(PredictionCallbacks, bad), bad)
    /\ UNCHANGED <<muxvars, pred, client, pump, cm>>

\* The prediction of the round fails (the stream raises) after n tool call
\* requests were submitted to the pool: the error leaves the round loop.
ActPredictFails(n) ==
    /\ act.pc = "predict"
    /\ act' = [act EXCEPT !.pc = "unwind", !.requests = n]
    /\ UNCHANGED <<muxvars, pred, client, pump, cm>>

\* A tool call submitted to the pool completes.
ToolDone(i) ==
    /\ act.pc \in {"collect", "unwind"}
    /\ i \in 1 .. act.requests
    /\ i \notin Range(act.completed)
    /\ act' = [act EXCEPT !.completed = Append(@, i)]
    /\ UNCHANGED <<muxvars, pred, client, pump, cm>>

\* The rest of the round: with pending tool calls their results are awaited
\* (the calls complete in the given order) and the assistant response and
\* the tool results are appended to the chat; without, the assistant
\* response is appended if on_message is given. Then
\* the loop ends if there was no tool call request or the round is final.
ActRoundEnd(bad, order) ==
    /\ act.pc = "collect"
    /\ order \in CompletionOrders(act.requests)
    /\ order = act.completed
    /\ LET chat == IF act.requests > 0
                   THEN act.chat \o <<"requests", "results">>
                   ELSE IF act.on_message THEN Append(act.chat, "response")
                   ELSE act.chat
           r == InvokeCallbacks(RoundEndCallbacks(act.requests, act.on_message), bad)
           a == [act EXCEPT !.chat = chat, !.tool_results = ToolResults(order),
                            !.steps = RoundEndSteps(act.requests, act.on_message)]
       IN IF r.escaped
          THEN act' = AfterCallbacks(a, r, bad)
          ELSE IF act.requests = 0
          THEN act' = AfterCallbacks([a EXCEPT !.pc = "exit"], r, bad)
          ELSE IF AfterToolRequests(act.round_index, act.final) = "invalid"
          THEN act' = AfterCallbacks([a EXCEPT !.pc = "exit", !.invalid = TRUE],
                                     r, bad)
          ELSE act' = AfterCallbacks([a EXCEPT !.pc = "round",
                                               !.round_index = @ + 1], r, bad)
    /\ UNCHANGED <<muxvars, pred, client, pump, cm>>

\* After the loop: the pool is left, then the result.
ActReturn ==
    /\ act.pc = "exit"
    /\ PoolJoined(act.requests, act.completed)
    /\ act' = [act EXCEPT !.pc = "returned",
                          !.rounds = NumRounds(act.round_index)]
    /\ UNCHANGED <<muxvars, pred, client, pump, cm>>

\* An error leaves the round loop: the pool is left, then act raises it.
ActPoolExit ==
    /\ act.pc = "unwind"
    /\ PoolJoined(act.requests, act.completed)
    /\ act' = [act EXCEPT !.pc = "failed"]
    /\ UNCHANGED <<muxvars, pred, client, pump, cm>>

NextAct ==
    \/ \E limited \in BOOLEAN, max \in -1 .. MaxK, on_message \in BOOLEAN :
            ActCall(limited, max, on_message)
    \/ \E bad \in SUBSET {"round_start"} : ActRoundStart(bad)
    \/ \E n \in 0 .. MaxReq, bad \in SUBSET Range(PredictionCallbacks) :
            ActPredict(n, bad)
    \/ \E bad \in SUBSET Range(RoundEndCallbacks(1, TRUE)) :
            \E order \in CompletionOrders(act.requests) : ActRoundEnd(bad, order)
    \/ ActReturn
    \/ \E n \in 0 .. MaxReq : ActPredictFails(n)
    \/ \E i \in 1 .. MaxReq : ToolDone(i)
    \/ ActPoolExit

\* ------------------------------------------------------------- PredictionStream
MaxMsgs == 4     \* messages the server sends on the prediction channel
MaxStarts == 3   \* calls of PredictionStream.start, direct or from __enter__

\* A PredictionStream before it is started, with its channel and endpoint.
InitPred ==
    pred = [ pc            |-> "new",   \* "new" | "iter" | "done"
             is_started    |-> FALSE,   \* _is_started
             is_finished   |-> FALSE,   \* _is_finished
             chan_finished |-> FALSE,   \* SyncChannel._is_finished
             phase         |-> "prompt",\* server: "prompt" | "gen" | "done" | "closed"
             nsent         |-> 0,       \* server: messages sent
             nfrag         |-> 0,       \* server: fragments sent before success
             rx_queue      |-> <<>>,    \* the channel's receive queue
             first_seen    |-> FALSE,   \* endpoint: a fragment was received
             ep_finished   |-> FALSE,   \* endpoint.is_finished
             events        |-> <<>>,    \* events yielded by _iter_events
             channel       |-> FALSE,   \* _channel is not None
             nstart        |-> 0,       \* calls of start()
             ncreate       |-> 0,       \* times the channel was entered
                                        \* (a channelCreate was sent)
             nerr          |-> 0,       \* runtime errors raised by start()
             ncomplete     |-> 0 ]      \* times _iter_events ran to its end

\* The messages the server may send next on the prediction channel: prompt
\* processing progress, then fragments, then success; after success the
\* channelClose, or a late fragment.
ServerMessages(phase) ==
    CASE phase = "prompt" -> {"progress", "fragment", "success"}
      [] phase = "gen" -> {"fragment", "success"}
      [] phase = "done" -> {"fragment", "close"}
      [] OTHER -> {}

ServerPhaseAfter(phase, m) ==
    CASE m = "close" -> "closed"
      [] m = "success" -> "done"
      [] m = "fragment" /\ phase = "prompt" -> "gen"
      [] OTHER -> phase

\* PredictionEndpoint.iter_message_events: the events of one message. The
\* first fragment gives the first token event before its fragment event.
IterMessageEvents(m, first_seen) ==
    CASE m = "progress" -> <<"PromptProcessing">>
      [] m = "fragment" -> IF first_seen THEN <<"Fragment">>
                           ELSE <<"FirstToken", "Fragment">>
      [] OTHER -> <<"Result">>

\* _iter_events leaves the rx_stream loop once the endpoint is finished.
BreakIfFinished_Never(ep_finished) == FALSE
BreakIfFinished(ep_finished) == ep_finished

\* _mark_started and _mark_finished of the prediction: the two flags.
MarkStarted(p) == [p EXCEPT !.is_started = TRUE]
MarkFinished(p) == [p EXCEPT !.is_finished = TRUE]

\* start(): the checks before the channel is entered.
StartOutcome_AlwaysOk(is_started, is_finished) == "ok"
StartOutcome(is_started, is_finished) ==
    IF is_finished THEN "finished_error"
    ELSE IF is_started THEN "started_error"
    ELSE "ok"

\* The stream after start(): a runtime error and nothing else, or the
\* channel is entered (the creation message is sent) and the stream is
\* marked started.
Start(p) ==
    LET q == [p EXCEPT !.nstart = @ + 1]
    IN IF StartOutcome(p.is_started, p.is_finished) = "ok"
       THEN MarkStarted([q EXCEPT !.channel = TRUE, !.ncreate = @ + 1])
       ELSE [q EXCEPT !.nerr = @ + 1]

\* close(): the channel is forgotten and the resources are released.
Close(p) == [p EXCEPT !.channel = FALSE]

\* A call of start() by the user of the stream.
PredStart ==
    /\ pred.nstart < MaxStarts
    /\ pred' = Start(pred)
    /\ UNCHANGED <<muxvars, act, client, pump, cm>>

\* _iter_events up to the loop: __enter__ starts the stream unless it has a
\* channel; an error of start() ends the iteration before it began.
PredIterStart ==
    /\ pred.pc \in {"new", "done"}
    /\ IF pred.channel
       THEN pred' = [pred EXCEPT !.pc = "iter"]
       ELSE /\ pred.nstart < MaxStarts
            /\ LET p == Start(pred)
               IN pred' = IF p.nerr = pred.nerr
                          THEN [p EXCEPT !.pc = "iter"] ELSE p
    /\ UNCHANGED <<muxvars, act, client, pump, cm>>

\* The server sends a message of the prediction; it is put on the queue.
PredServerSend(m) ==
    /\ pred.is_started
    /\ m \in ServerMessages(pred.phase)
    /\ m # "close" => pred.nsent < MaxMsgs
    /\ pred' = [pred EXCEPT
                    !.phase = ServerPhaseAfter(pred.phase, m),
                    !.nsent = IF m = "close" THEN @ ELSE @ + 1,
                    !.nfrag = IF m = "fragment" /\ pred.phase # "done"
                              THEN @ + 1 ELSE @,
                    !.rx_queue = QueuePut(@, m)]
    /\ UNCHANGED <<muxvars, act, client, pump, cm>>

\* _iter_events, one iteration of the loop over rx_stream: a channelClose
\* ends rx_stream; else the events of the message are handled and yielded,
\* and the loop is left if the endpoint is finished. After the loop the
\* stream is marked finished and __exit__ closes it.
PredRxNext ==
    /\ pred.pc = "iter"
    /\ pred.rx_queue # <<>>
    /\ LET m == Head(pred.rx_queue)
           rest == Tail(pred.rx_queue)
           fin == pred.ep_finished \/ m = "success"
           end(p) == Close(MarkFinished([p EXCEPT !.pc = "done",
                                                  !.ncomplete = @ + 1]))
       IN IF m = "close"
          THEN pred' = end([pred EXCEPT !.rx_queue = rest,
                                        !.chan_finished = TRUE])
          ELSE LET p == [pred EXCEPT
                           !.rx_queue = rest,
                           !.events = @ \o IterMessageEvents(m, pred.first_seen),
                           !.first_seen = @ \/ m = "fragment",
                           !.ep_finished = fin]
               IN pred' = IF BreakIfFinished(fin) THEN end(p) ELSE p
    /\ UNCHANGED <<muxvars, act, client, pump, cm>>

NextPred ==
    \/ PredStart
    \/ PredIterStart
    \/ \E m \in {"progress", "fragment", "success", "close"} : PredServerSend(m)
    \/ PredRxNext

\* ------------------------------------------------------------- Client sessions
Namespaces == {"llm", "embedding"}
MaxGets == 3     \* session accessor calls
MaxCloses == 2   \* Client.close() calls
NoSession == 0   \* no session object; on the resource stack: _sessions.clear

\* Client.__init__: an empty session map, and a resource stack that holds the
\* callback clearing the map.
InitClient ==
    client = [ sessions |-> [ns \in Namespaces |-> NoSession], \* _sessions
               stack    |-> <<NoSession>>, \* _resources: exit callbacks
               made     |-> <<>>,        \* namespace of each session built
               calls    |-> 0,           \* accessor calls begun
               tp       |-> [t \in Threads |->
                               [pc |-> "idle", ns |-> "llm", session |-> NoSession]],
               returned |-> {},          \* <<namespace, session>> returned
               cpc      |-> "idle",      \* close(): "idle" | "closing"
               alone    |-> FALSE,       \* no accessor call ran since close() began
               overlap  |-> FALSE,       \* an accessor call ran during some close()
               ncloses  |-> 0,           \* close() calls begun
               log      |-> <<>> ]       \* sessions disconnected, in order

\* _get_session up to the lookup: the session of the namespace is returned,
\* or there is none yet.
GetSessionLookup(t, ns) ==
    /\ client.tp[t].pc = "idle"
    /\ client.calls < MaxGets
    /\ LET s == client.sessions[ns] IN
        client' = [client EXCEPT
            !.calls = @ + 1,
            !.alone = FALSE,
            !.overlap = @ \/ client.cpc = "closing",
            !.returned = IF s # NoSession THEN @ \cup {<<ns, s>>} ELSE @,
            !.tp[t] = IF s # NoSession THEN @
                      ELSE [pc |-> "create", ns |-> ns, session |-> NoSession]]
    /\ UNCHANGED <<muxvars, act, pred, pump, cm>>

\* _get_session: a session is built and stored in the map.
GetSessionCreate(t) ==
    /\ client.tp[t].pc = "create"
    /\ LET s == Len(client.made) + 1
           ns == client.tp[t].ns
       IN client' = [client EXCEPT
            !.made = Append(@, ns),
            !.sessions[ns] = s,
            !.alone = FALSE,
            !.overlap = @ \/ client.cpc = "closing",
            !.tp[t] = [@ EXCEPT !.pc = "push", !.session = s]]
    /\ UNCHANGED <<muxvars, act, pred, pump, cm>>

\* _get_session: the session's exit is pushed on the resource stack and the
\* session is returned.
GetSessionPush(t) ==
    /\ client.tp[t].pc = "push"
    /\ LET s == client.tp[t].session IN
        client' = [client EXCEPT
            !.stack = Append(@, s),
            !.alone = FALSE,
            !.overlap = @ \/ client.cpc = "closing",
            !.returned = @ \cup {<<client.tp[t].ns, s>>},
            !.tp[t] = [pc |-> "idle", ns |-> "llm", session |-> NoSession]]
    /\ UNCHANGED <<muxvars, act, pred, pump, cm>>

\* Client.close: _resources.close() begins.
ClientCloseStart ==
    /\ client.cpc = "idle"
    /\ client.ncloses < MaxCloses
    /\ client' = [client EXCEPT
            !.cpc = "closing",
            !.ncloses = @ + 1,
            !.alone = \A t \in Threads : client.tp[t].pc = "idle",
            !.overlap = @ \/ \E t \in Threads : client.tp[t].pc # "idle"]
    /\ UNCHANGED <<muxvars, act, pred, pump, cm>>

\* ExitStack.close: the callbacks are popped and called, last one first: a
\* session is disconnected, the first callback clears the map; with none
\* left close() returns.
ClientCloseStep ==
    /\ client.cpc = "closing"
    /\ LET n == Len(client.stack) IN
        IF n = 0
        THEN client' = [client EXCEPT !.cpc = "idle"]
        ELSE LET top == client.stack[n]
                 rest == SubSeq(client.stack, 1, n - 1)
             IN IF top = NoSession
                THEN client' = [client EXCEPT
                        !.stack = rest,
                        !.sessions = [ns \in Namespaces |-> NoSession]]
                ELSE client' = [client EXCEPT
                        !.stack = rest,
                        !.log = Append(@, top)]
    /\ UNCHANGED <<muxvars, act, pred, pump, cm>>

NextClient ==
    \/ \E t \in Threads, ns \in Namespaces : GetSessionLookup(t, ns)
    \/ \E t \in Threads : GetSessionCreate(t)
    \/ \E t \in Threads : GetSessionPush(t)
    \/ ClientCloseStart
    \/ ClientCloseStep

\* ------------------------------------------------------------- specifications
\* ------------------------------------------------------------- background thread, step by step
Callers == {"c1", "c2"}  \* caller threads, each sends one frame
MaxRecv == 1             \* frames the receive task receives

\* An _AsyncWebsocketThread before start(), and the threads that will call
\* connect(), send_json() and disconnect() on it.
InitPump ==
    pump = [ tpc       |-> "unstarted", \* "unstarted" | "connecting" | "auth"
                                        \* | "running" | "cleared" | "closed" | "dead"
             ws        |-> FALSE,   \* _ws is not None
             loop      |-> FALSE,   \* _ws_loop is not None
             attempted |-> FALSE,   \* _connection_attempted is set
             terminate |-> FALSE,   \* _terminate is set
             failure   |-> "none",  \* "conn": _connection_failure, "auth": _auth_failure
             failed    |-> FALSE,   \* the transport has failed
             rx        |-> "none",  \* receive task: "none" | "running" | "stopped"
                                    \* | "cancelled"
             nrecv     |-> 0,       \* frames received
             loopq     |-> <<>>,    \* callbacks handed to the loop, not yet run
             writing   |-> {},      \* callers whose send is inside ws.send_json
             wire      |-> <<>>,    \* the frames given to the transport, by caller
             submitted |-> <<>>,    \* the sends handed to the loop, by caller
             ops       |-> {},      \* transport operations and the thread of each
             conn      |-> "idle",  \* connect(): "idle" | "waiting" | "returned"
             result    |-> FALSE,   \* what connect() returned
             cpc       |-> [c \in Callers |-> "idle"], \* send_json(): "idle"
                                    \* | "haveloop" | "waiting" | "done"
             outcome   |-> [c \in Callers |-> "none"], \* "sent" | "txerror"
                                    \* | "assertion" | "loop_closed" | "cancelled"
             dis       |-> "idle" ] \* disconnect(): "idle" | "call" | "join"
                                    \* | "done" | "failed"

\* A transport operation op carried out by thread by.
Op(op, by) == [op |-> op, by |-> by]

\* _run_background_task: the thread that runs a coroutine handed over by
\* caller c with run_coroutine_threadsafe is the thread of the loop.
RunBackgroundTask_Inline(c) == c
RunBackgroundTask(c) == "pump"

\* run(), finally: _connection_attempted is set however asyncio.run ended.
RunFinally_NoSet(attempted) == attempted
RunFinally(attempted) == TRUE

\* _receive_messages: the exceptions of _process_next_message it catches.
ReceiveCatches(exc) == exc = "wserror"

\* connect(): the thread is started and the caller waits for
\* _connection_attempted.
ThreadStart ==
    /\ pump.conn = "idle"
    /\ pump' = [pump EXCEPT !.conn = "waiting", !.tpc = "connecting"]
    /\ UNCHANGED <<muxvars, act, pred, client, cm>>

\* _main_task, aconnect_ws: the connection is opened, and _ws_loop and _ws
\* are set; or it fails, _connection_failure is set and the exception ends
\* asyncio.run.
MainTaskOpen(ok) ==
    /\ pump.tpc = "connecting"
    /\ pump' = IF ok
               THEN [pump EXCEPT !.tpc = "auth", !.ws = TRUE, !.loop = TRUE,
                                 !.ops = @ \cup {Op("connect", "pump")}]
               ELSE [pump EXCEPT !.tpc = "closed", !.failure = "conn",
                                 !.ops = @ \cup {Op("connect", "pump")}]
    /\ UNCHANGED <<muxvars, act, pred, client, cm>>

\* _main_task, _authenticate: on success the receive task is started and
\* _connection_attempted is set; a refusal sets _auth_failure and returns, an
\* exception is raised: both leave the resources, which clears _ws and
\* _ws_loop and closes the connection.
MainTaskAuthenticate(r) ==
    /\ pump.tpc = "auth"
    /\ LET p == [pump EXCEPT !.ops = @ \cup {Op("send", "pump"), Op("recv", "pump")}]
       IN pump' =
            CASE r = "ok" -> [p EXCEPT !.tpc = "running", !.rx = "running",
                                       !.attempted = TRUE]
              [] r = "denied" -> [p EXCEPT !.tpc = "cleared", !.failure = "auth",
                                           !.ws = FALSE, !.loop = FALSE,
                                           !.ops = @ \cup {Op("close", "pump")}]
              [] OTHER -> [p EXCEPT !.tpc = "cleared",
                                    !.ws = FALSE, !.loop = FALSE,
                                    !.ops = @ \cup {Op("close", "pump")}]
    /\ UNCHANGED <<muxvars, act, pred, client, cm>>

\* connect() returns once _connection_attempted is set: whether _ws and
\* _ws_loop are set.
ThreadConnectReturn ==
    /\ pump.conn = "waiting"
    /\ pump.attempted
    /\ pump' = [pump EXCEPT !.conn = "returned",
                            !.result = pump.ws /\ pump.loop]
    /\ UNCHANGED <<muxvars, act, pred, client, cm>>

\* send_json, _run_background_task: the caller reads _ws_loop and asserts it
\* is set.
SendJsonReadLoop(c) ==
    /\ pump.conn = "returned" /\ pump.result
    /\ pump.cpc[c] = "idle"
    /\ pump' = IF pump.loop
               THEN [pump EXCEPT !.cpc[c] = "haveloop"]
               ELSE [pump EXCEPT !.cpc[c] = "done", !.outcome[c] = "assertion"]
    /\ UNCHANGED <<muxvars, act, pred, client, cm>>

\* send_json, run_coroutine_threadsafe: the coroutine is handed to the loop
\* and the caller waits for its future; a closed loop refuses it.
RunCoroutineThreadsafe(c) ==
    /\ pump.cpc[c] = "haveloop"
    /\ pump' = IF pump.tpc \in {"closed", "dead"}
               THEN [pump EXCEPT !.cpc[c] = "done", !.outcome[c] = "loop_closed"]
               ELSE [pump EXCEPT !.cpc[c] = "waiting",
                                 !.loopq = Append(@, c),
                                 !.submitted = Append(@, c)]
    /\ UNCHANGED <<muxvars, act, pred, client, cm>>

\* The loop runs the next callback handed to it. The termination request
\* sets _terminate. A send runs _send_json: it asserts _ws is set and calls
\* ws.send_json, which raises on a failed transport and else takes the frame
\* and suspends until it is written.
LoopRunNext ==
    /\ pump.tpc \in {"auth", "running", "cleared"}
    /\ pump.loopq # <<>>
    /\ LET c == Head(pump.loopq)
           p == [pump EXCEPT !.loopq = Tail(@)]
       IN pump' =
            IF c = "disconnect" THEN [p EXCEPT !.terminate = TRUE]
            ELSE IF ~pump.ws
            THEN [p EXCEPT !.cpc[c] = "done", !.outcome[c] = "assertion"]
            ELSE IF pump.failed
            THEN [p EXCEPT !.cpc[c] = "done", !.outcome[c] = "txerror",
                           !.ops = @ \cup {Op("send", RunBackgroundTask(c))}]
            ELSE [p EXCEPT !.writing = @ \cup {c},
                           !.wire = Append(@, c),
                           !.ops = @ \cup {Op("send", RunBackgroundTask(c))}]
    /\ UNCHANGED <<muxvars, act, pred, client, cm>>

\* ws.send_json of caller c's frame ends: the future is resolved, the
\* caller's send_json returns, or raises if the transport has gone.
WsSendJsonDone(c) ==
    /\ pump.tpc \in {"auth", "running", "cleared"}
    /\ c \in pump.writing
    /\ pump' = [pump EXCEPT
                    !.writing = @ \ {c},
                    !.cpc[c] = "done",
                    !.outcome[c] = IF pump.failed \/ ~pump.ws
                                   THEN "txerror" ELSE "sent"]
    /\ UNCHANGED <<muxvars, act, pred, client, cm>>

\* _receive_messages, one turn: a frame is received and queued; or the
\* transport fails with a websocket error, which is caught: _terminate is
\* set if _ws is set, and the task ends; or another exception is raised,
\* which is not caught and ends the task.
ReceiveMessages(r) ==
    /\ pump.tpc = "running"
    /\ pump.rx = "running"
    /\ r = "frame" => pump.nrecv < MaxRecv
    /\ pump' =
        CASE r = "frame" ->
                [pump EXCEPT !.nrecv = @ + 1,
                             !.ops = @ \cup {Op("recv", "pump")}]
          [] r = "wserror" /\ ReceiveCatches(r) ->
                [pump EXCEPT !.rx = "stopped", !.failed = TRUE,
                             !.terminate = IF pump.ws THEN TRUE ELSE @,
                             !.ops = @ \cup {Op("recv", "pump")}]
          [] OTHER ->
                [pump EXCEPT !.rx = "stopped",
                             !.ops = @ \cup {Op("recv", "pump")}]
    /\ UNCHANGED <<muxvars, act, pred, client, cm>>

\* _main_task after _terminate.wait(): _manage_demultiplexing cancels the
\* receive task if it runs, then the resources are left: _ws and _ws_loop
\* are cleared and the connection is closed.
MainTaskLeave ==
    /\ pump.tpc = "running"
    /\ pump.terminate
    /\ pump' = [pump EXCEPT !.tpc = "cleared",
                            !.rx = IF @ = "running" THEN "cancelled" ELSE @,
                            !.ws = FALSE, !.loop = FALSE,
                            !.ops = @ \cup {Op("close", "pump")}]
    /\ UNCHANGED <<muxvars, act, pred, client, cm>>

\* asyncio.run ends: the tasks left are cancelled (a send inside
\* ws.send_json fails with the cancellation), the loop is closed; callbacks
\* that were not run are never run.
AsyncioRunEnds ==
    /\ pump.tpc = "cleared"
    /\ pump' = [pump EXCEPT
                    !.tpc = "closed",
                    !.writing = {},
                    !.cpc = [c \in Callers |->
                                IF c \in pump.writing THEN "done" ELSE pump.cpc[c]],
                    !.outcome = [c \in Callers |->
                                IF c \in pump.writing THEN "cancelled"
                                ELSE pump.outcome[c]]]
    /\ UNCHANGED <<muxvars, act, pred, client, cm>>

\* run(), after asyncio.run: the finally clause, then the thread ends.
ThreadRunEnds ==
    /\ pump.tpc = "closed"
    /\ pump' = [pump EXCEPT !.tpc = "dead",
                            !.attempted = RunFinally(pump.attempted)]
    /\ UNCHANGED <<muxvars, act, pred, client, cm>>

\* disconnect(), the test of _ws.
DisconnectCheck ==
    /\ pump.conn = "returned" /\ pump.result
    /\ pump.dis = "idle"
    /\ pump' = [pump EXCEPT !.dis = IF pump.ws THEN "call" ELSE "join"]
    /\ UNCHANGED <<muxvars, act, pred, client, cm>>

\* disconnect(), _call_in_background: _ws_loop is read and asserted to be
\* set, and _terminate_main_task is handed to the loop.
CallInBackground ==
    /\ pump.dis = "call"
    /\ pump' = IF ~pump.loop THEN [pump EXCEPT !.dis = "failed"]
               ELSE [pump EXCEPT !.dis = "join",
                                 !.loopq = Append(@, "disconnect")]
    /\ UNCHANGED <<muxvars, act, pred, client, cm>>

\* disconnect(), join(): returns when the thread has ended.
ThreadJoin ==
    /\ pump.dis = "join"
    /\ pump.tpc = "dead"
    /\ pump' = [pump EXCEPT !.dis = "done"]
    /\ UNCHANGED <<muxvars, act, pred, client, cm>>

NextPump ==
    \/ ThreadStart
    \/ \E ok \in BOOLEAN : MainTaskOpen(ok)
    \/ \E r \in {"ok", "denied", "ioerror"} : MainTaskAuthenticate(r)
    \/ ThreadConnectReturn
    \/ \E c \in Callers : SendJsonReadLoop(c)
    \/ \E c \in Callers : RunCoroutineThreadsafe(c)
    \/ LoopRunNext
    \/ \E c \in Callers : WsSendJsonDone(c)
    \/ \E r \in {"frame", "wserror", "other"} : ReceiveMessages(r)
    \/ MainTaskLeave
    \/ AsyncioRunEnds
    \/ ThreadRunEnds
    \/ DisconnectCheck
    \/ CallInBackground
    \/ ThreadJoin

\* The background thread goes on as long as it can, and so does the caller
\* of connect() once _connection_attempted is set.
PumpFairness ==
    /\ WF_vars(\E ok \in BOOLEAN : MainTaskOpen(ok))
    /\ WF_vars(\E r \in {"ok", "denied", "ioerror"} : MainTaskAuthenticate(r))
    /\ WF_vars(AsyncioRunEnds)
    /\ WF_vars(ThreadRunEnds)
    /\ WF_vars(ThreadConnectReturn)

\* ------------------------------------------------------------- context managers
MaxDepth == 3    \* nested with blocks of one object
MaxCmOps == 5    \* __enter__ and __exit__ calls on one object

\* A SyncSession and a SyncLMStudioWebsocket, each used as a context manager
\* by one thread, before the first with block.
InitCm ==
    cm = [ s_depth    |-> 0,       \* with blocks of the session now active
           s_lmsws    |-> FALSE,   \* SyncSession._lmsws is not None
           s_connects |-> 0,       \* SyncSession.connect calls
           s_ops      |-> 0,
           w_depth    |-> 0,       \* with blocks of the websocket now active
           w_ws       |-> FALSE,   \* SyncLMStudioWebsocket._ws is not None
           w_connects |-> 0,       \* SyncLMStudioWebsocket.connect calls
           w_ops      |-> 0 ]

\* SyncSession._ensure_connected: connect() is called if there is no websocket.
EnsureConnected_Always(has_lmsws) == TRUE
EnsureConnected(has_lmsws) == ~has_lmsws

\* SyncLMStudioWebsocket.__enter__: connect() is called if there is no thread.
WsEnterConnects(ws_set) == ~ws_set

\* SyncSession.__enter__: _ensure_connected(); a connect that fails raises
\* and the with block is not entered.
SessionEnter(ok) ==
    /\ cm.s_depth < MaxDepth
    /\ cm.s_ops < MaxCmOps
    /\ IF EnsureConnected(cm.s_lmsws)
       THEN cm' = [cm EXCEPT !.s_ops = @ + 1,
                             !.s_connects = @ + 1,
                             !.s_lmsws = ok,
                             !.s_depth = IF ok THEN @ + 1 ELSE @]
       ELSE /\ ok
            /\ cm' = [cm EXCEPT !.s_ops = @ + 1, !.s_depth = @ + 1]
    /\ UNCHANGED <<muxvars, act, pred, client, pump>>

\* SyncSession.__exit__: disconnect().
SessionExit ==
    /\ cm.s_depth > 0
    /\ cm.s_ops < MaxCmOps
    /\ cm' = [cm EXCEPT !.s_ops = @ + 1, !.s_depth = @ - 1, !.s_lmsws = FALSE]
    /\ UNCHANGED <<muxvars, act, pred, client, pump>>

\* SyncLMStudioWebsocket.__enter__.
WebsocketEnter(ok) ==
    /\ cm.w_depth < MaxDepth
    /\ cm.w_ops < MaxCmOps
    /\ IF WsEnterConnects(cm.w_ws)
       THEN cm' = [cm EXCEPT !.w_ops = @ + 1,
                             !.w_connects = @ + 1,
                             !.w_ws = ok,
                             !.w_depth = IF ok THEN @ + 1 ELSE @]
       ELSE /\ ok
            /\ cm' = [cm EXCEPT !.w_ops = @ + 1, !.w_depth = @ + 1]
    /\ UNCHANGED <<muxvars, act, pred, client, pump>>

\* SyncLMStudioWebsocket.__exit__: disconnect().
WebsocketExit ==
    /\ cm.w_depth > 0
    /\ cm.w_ops < MaxCmOps
    /\ cm' = [cm EXCEPT !.w_ops = @ + 1, !.w_depth = @ - 1, !.w_ws = FALSE]
    /\ UNCHANGED <<muxvars, act, pred, client, pump>>

NextCm ==
    \/ \E ok \in BOOLEAN : SessionEnter(ok)
    \/ SessionExit
    \/ \E ok \in BOOLEAN : WebsocketEnter(ok)
    \/ WebsocketExit

Init == InitMux /\ InitAct /\ InitPred /\ InitClient /\ InitPump /\ InitCm

Next ==
    \/ ClientInit
    \/ GetSession
    \/ \E t \in Threads, k \in {"call", "chan"} : BeginOp(t, k)
    \/ \E t \in Threads : ConnectStart(t)
    \/ \E t \in Threads : ConnectFinish(t)
    \/ \E t \in Threads : Register(t)
    \/ \E t \in Threads : SendFirst(t)
    \/ \E t \in Threads : ReceiveResult(t)
    \/ \E t \in Threads : RxStream(t)
    \/ \E t \in Threads : Cancel(t)
    \/ \E t \in Threads : ExitChannel(t)
    \/ \E w \in W, r \in {"ok", "connfail", "denied", "denied_none", "ioerror"} :
            PumpConnect(w, r)
    \/ \E w \in W : \E f \in ServerFrames(w) : PumpReceive(w, f)
    \/ \E w \in W, k \in 1 .. 2 : EnqueueMessage(w, k)
    \/ \E w \in W : ReceiveFails(w)
    \/ \E w \in W : PumpTeardown(w)
    \/ \E w \in W : PumpExit(w)
    \/ SessionDisconnect
    \/ WebsocketDisconnect
    \/ ThreadDisconnect
    \/ DisconnectJoin

Spec == Init /\ [][Next]_vars

SpecAct == Init /\ [][NextAct]_vars

SpecPred == Init /\ [][NextPred]_vars

SpecClient == Init /\ [][NextClient]_vars

SpecCm == Init /\ [][NextCm]_vars

SpecPump == Init /\ [][NextPump]_vars

SpecPumpLive == Init /\ [][NextPump]_vars /\ PumpFairness

\* ------------------------------------------------------------- claims
\* The caller of t waits on its receive queue.
Waiting(t) ==
    \/ th[t].pc = "recv"
    \/ th[t].pc = "open" /\ ~th[t].is_finished

\* The shutdown sentinel has reached the operation of t.
GotSentinel(t) == Sentinel \in Range(th[t].rx_queue) \/ th[t].outcome = "disconnected"

\* C1: two calls outstanding at the same time on one connection have
\* different call ids, two channels open at the same time have different
\* channel ids, and the ids handed out on a connection are 0, 1, 2, ... in
\* order, none twice.
C1_IdsUnique ==
    /\ \A t, u \in Threads :
          (/\ t # u
           /\ th[t].registered /\ th[u].registered
           /\ th[t].w = th[u].w /\ th[t].kind = th[u].kind)
          => th[t].id # th[u].id
    /\ \A w \in W :
          /\ \A k \in 1 .. Len(ws[w].calls) : ws[w].calls[k] = k - 1
          /\ \A k \in 1 .. Len(ws[w].chans) : ws[w].chans[k] = k - 1

\* Two calls are outstanding on one connection.
C1_Witness ==
    \E t, u \in Threads :
        /\ t # u
        /\ th[t].pc = "recv" /\ th[u].pc = "recv"
        /\ th[t].w = th[u].w

\* C2: every outstanding remote call has exactly one item delivered to its
\* queue: never more than one, and not zero once its connection is gone.
C2_ExactlyOne ==
    \A t \in Threads :
        th[t].pc = "recv" =>
            /\ th[t].delivered <= 1
            /\ ws[th[t].w].tpc = "dead" => th[t].delivered = 1

\* C3: the payloads rx_stream yields on a channel are in the order in which
\* the server sent the channelSend frames of that channel (numbered 1, 2, ...).
C3_Fifo ==
    \A t \in Threads :
        \A k \in 1 .. Len(th[t].yielded) : th[t].yielded[k] = k

\* A channel has yielded two payloads while a frame of another operation
\* was delivered on the same connection.
C3_Witness ==
    \E t, u \in Threads :
        /\ t # u
        /\ Len(th[t].yielded) = 2
        /\ th[u].w = th[t].w
        /\ th[u].delivered > 0

\* C4: after a transport failure seen by the receive loop, every queue
\* registered then has received the shutdown sentinel once the thread is gone.
C4_FanOut ==
    \A t \in Threads :
        (/\ Waiting(t)
         /\ ws[th[t].w].failed
         /\ ws[th[t].w].tpc = "dead")
        => GotSentinel(t)

\* C5: however often cancel() is called on a channel, at most one
\* channelCancel frame is sent for it.
C5_CancelOnce == \A w \in W : \A i \in Ids : ws[w].cancels[i] <= 1

\* C6: building the Client and obtaining the session connects nothing; the
\* first operation performs the handshake; a websocket is created, and a
\* handshake performed, only while the session holds no websocket.
C6_State ==
    /\ (\A t \in Threads : th[t].pc = "idle") => nconn = 0 /\ handshakes = 0
    /\ handshakes <= nconn
    /\ \A t \in Threads : th[t].registered => handshakes >= 1
    /\ lmsws # NoWs => handshakes >= 1
C6_Step ==
    /\ nconn' # nconn => lmsws = NoWs /\ stage = "session"
    /\ handshakes' # handshakes =>
            \E t \in Threads : th[t].pc = "waitconn" /\ ws[th[t].w].tpc = "connecting"
    /\ \A t \in Threads :
            th[t].pc = "idle" /\ th'[t].pc # "idle" /\ lmsws # NoWs
            => th'[t].pc = "getws"
C6_LazyConnect == []C6_State /\ [][C6_Step]_vars

\* One operation has returned its result, another one is registered, and one
\* handshake was performed on one websocket.
C6_Witness ==
    \E t, u \in Threads :
        /\ th[t].pc = "done" /\ th[t].outcome = "result"
        /\ th[u].registered
        /\ handshakes = 1 /\ nconn = 1

\* C7: disconnecting the session puts the shutdown sentinel on the queue of
\* every call and channel in flight; a caller waiting on such a queue is not
\* left blocked, and taking the sentinel fails with Disconnected.
C7_State ==
    \A t \in Threads :
        Waiting(t) /\ ws[th[t].w].notified
        => th[t].rx_queue # <<>> \/ th[t].outcome = "disconnected"
C7_Step ==
    /\ \A w \in W :
          ~ws[w].notified /\ ws'[w].notified
          => \A t \in Registered(w) :
                th'[t].rx_queue = Append(th[t].rx_queue, Sentinel)
    /\ \A t \in Threads :
          (/\ Waiting(t)
           /\ th[t].rx_queue # <<>>
           /\ Head(th[t].rx_queue) = Sentinel
           /\ \/ th[t].pc = "recv" /\ th'[t].pc = "done"
              \/ th[t].pc = "open" /\ th'[t].pc = "open"
                                   /\ th'[t].rx_queue = Tail(th[t].rx_queue))
          => th'[t].outcome = "disconnected"
C7_DisconnectNotifies == []C7_State /\ [][C7_Step]_vars

\* A call and a channel were in flight at a disconnect and both failed with
\* Disconnected.
C7_Witness ==
    \E t, u \in Threads :
        /\ th[t].pc = "done" /\ th[t].outcome = "disconnected"
        /\ th[u].pc = "open" /\ th[u].outcome = "disconnected"
        /\ ws[th[u].w].notified

\* C8: after the transport was killed, the multiplexer of that connection
\* holds no call or channel, and the session no longer holds the dead
\* websocket (so that the next operation connects anew).
C8_EmptyAndReconnect ==
    \A w \in W :
        ws[w].failed /\ ws[w].tpc = "dead"
        => Registered(w) = {} /\ lmsws # w

\* C9: with max_prediction_rounds = K >= 1, act performs at most K prediction
\* rounds and returns rounds <= K.
C9_AtMostK ==
    (act.limited /\ act.pc \notin {"off", "valueerror"})
    => /\ act.started <= act.max
       /\ act.pc = "returned" => act.rounds <= act.max

\* act has returned after K = 2 rounds, the model asking for tools in both.
C9_Witness ==
    /\ act.pc = "returned"
    /\ act.limited /\ act.max = 2
    /\ act.rounds = 2
    /\ act.invalid

\* C10: tool definitions are sent in a round exactly when the round is not
\* the final one: not in round K - 1 with a limit K, always without a limit.
C10_ToolsUnlessFinal ==
    \A k \in 1 .. Len(act.tools_sent) :
        act.tools_sent[k] = ~(act.limited /\ k - 1 = act.max - 1)

\* With K = 2 the first round had the tools and the second had none.
C10_Witness ==
    /\ act.limited /\ act.max = 2
    /\ act.tools_sent = <<TRUE, FALSE>>

\* C11: when the model requests a tool call on the final round (round index
\* K - 1 with max_prediction_rounds = K), the invalid tool request is
\* signalled and the loop ends after that round: no further round starts.
C11_State ==
    act.invalid => /\ act.pc \in {"exit", "returned"}
                   /\ act.limited
                   /\ act.started = act.max
C11_Step ==
    (/\ act.pc = "collect"
     /\ act.requests > 0
     /\ act.limited
     /\ act.round_index = act.max - 1
     /\ act'.pc # "collect")
    => /\ act'.invalid
       /\ act'.pc = "exit"
       /\ act'.started = act.started
C11_InvalidOnFinal == []C11_State /\ [][C11_Step]_vars

\* With K = 1 the model asked for a tool in the only round and act returned.
C11_Witness ==
    /\ act.pc = "returned"
    /\ act.limited /\ act.max = 1
    /\ act.requests > 0
    /\ act.invalid

\* C12: a callback that raises stops nothing: no exception of a callback
\* leaves act, every callback due in a round is still invoked after one
\* that raised, later rounds follow and the result is returned.
C12_CallbacksIsolated ==
    /\ act.pc # "raised"
    /\ act.pc = "predict" => act.cbs = <<"round_start">>
    /\ act.pc = "collect" => act.cbs = <<"round_start">> \o PredictionCallbacks
    /\ (act.pc \in {"exit", "returned"} \/ (act.pc = "round" /\ act.started > 0))
       => act.cbs = <<"round_start">> \o PredictionCallbacks
                    \o RoundEndCallbacks(act.requests, act.on_message)

\* act has returned after two rounds in which a callback had raised.
C12_Witness ==
    /\ act.pc = "returned"
    /\ act.raised
    /\ act.rounds = 2
    /\ act.on_message

\* C14: when the scope of an opened channel is left while the channel is not
\* finished (and the connection is up), a channelCancel frame is sent for
\* it; when the channel is finished none is sent.
C14_Step ==
    \A t \in Threads :
        (th[t].pc = "open" /\ th'[t].pc = "done") =>
            LET w == th[t].w
                i == th[t].id
            IN IF ~th[t].is_finished /\ SendJson(w) = "sent"
               THEN ws'[w].cancels[i] = ws[w].cancels[i] + 1
               ELSE ws'[w].cancels[i] = ws[w].cancels[i]
C14_CancelOnExit == [][C14_Step]_vars

\* C15: once rx_stream has ended, by channelClose or by the shutdown
\* sentinel, the channel is finished, so that a later iteration returns at
\* once and takes nothing more from the queue.
C15_State ==
    \A t \in Threads :
        th[t].pc = "open" /\ th[t].outcome = "disconnected" => th[t].is_finished
C15_Step ==
    \A t \in Threads :
        (th[t].pc = "open" /\ (th[t].is_finished \/ th[t].outcome = "disconnected"))
        => /\ th'[t].yielded = th[t].yielded
           /\ Len(th'[t].rx_queue) >= Len(th[t].rx_queue)
C15_NothingAfterEnd == []C15_State /\ [][C15_Step]_vars

\* C16: cancel() changes nothing in the stream: the channel stays unfinished
\* and its queue untouched; after it the received payloads are still yielded,
\* and only a channelClose finishes the channel.
C16_Step ==
    \A t \in Threads :
        th[t].pc = "open" =>
            LET w == th[t].w
                i == th[t].id
                q == th[t].rx_queue
            IN /\ ws'[w].cancels[i] # ws[w].cancels[i] => th' = th
               /\ (th'[t].pc = "open" /\ th'[t].is_finished /\ ~th[t].is_finished)
                  => q # <<>> /\ Head(q).type = "channelClose"
               /\ (/\ ws[w].cancels[i] > 0
                   /\ ~th[t].is_finished
                   /\ q # <<>>
                   /\ Head(q).type = "channelSend"
                   /\ th'[t].pc = "open"
                   /\ th'[t].rx_queue = Tail(q))
                  => th'[t].yielded = Append(th[t].yielded, Head(q).msg)
C16_CancelDoesNotFinish == [][C16_Step]_vars

\* A channelCancel was sent while the channel was unfinished; the channel
\* yielded a payload and was finished later by the server's channelClose.
C16_Witness ==
    \E t \in Threads :
        /\ th[t].pc = "open"
        /\ ws[th[t].w].cancels[th[t].id] = 1
        /\ th[t].yielded = <<1>>
        /\ th[t].is_finished

\* C18: while nothing has failed and nobody has disconnected, the session
\* has made at most one websocket and one handshake, and no caller has failed
\* because the session was already connected.
C18_OneConnection ==
    nenv = 0 =>
        /\ nconn <= 1
        /\ handshakes <= 1
        /\ \A t \in Threads : th[t].outcome # "alreadyconnected"

\* C20: connect() fails with the authentication error when the server
\* answered the handshake with success = false, fails with the connection
\* error when the connection was not made or the handshake was not answered,
\* and succeeds only with the websocket open and authenticated.
C20_Step ==
    \A t \in Threads :
        (th[t].pc = "waitconn" /\ th'[t].pc # "waitconn") =>
            LET w == th[t].w
            IN /\ ws[w].refused => th'[t].outcome = "autherror"
               /\ (ws[w].tpc = "dead" /\ ~ws[w].refused)
                  => th'[t].outcome = "connecterror"
               /\ th'[t].pc = "getws"
                  => ws[w].tws /\ ws[w].tloop /\ ~ws[w].refused
C20_ConnectErrors == [][C20_Step]_vars

\* C13: the events of a prediction come as PromptProcessing*, FirstToken,
\* Fragment+, Result: FirstToken at most once and right before the first
\* Fragment, exactly once in a successful prediction that had a fragment,
\* and nothing after the Result.
EventRank(e) ==
    CASE e = "PromptProcessing" -> 0
      [] e = "FirstToken" -> 1
      [] e = "Fragment" -> 2
      [] OTHER -> 3
C13_EventOrder ==
    LET e == pred.events
        n == Len(e)
        Count(x) == Cardinality({k \in 1 .. n : e[k] = x})
    IN /\ \A j, k \in 1 .. n : j < k => EventRank(e[j]) <= EventRank(e[k])
       /\ Count("FirstToken") <= 1
       /\ Count("Result") <= 1
       /\ \A k \in 1 .. n :
            e[k] = "Fragment" => k > 1 /\ e[k - 1] \in {"FirstToken", "Fragment"}
       /\ \A k \in 1 .. n :
            e[k] = "FirstToken" => k < n /\ e[k + 1] = "Fragment"
       /\ \A k \in 1 .. n : e[k] = "Result" => k = n
       /\ (Count("Result") = 1 /\ pred.nfrag > 0)
          => Count("FirstToken") = 1 /\ Count("Fragment") = pred.nfrag

\* A prediction gave all four kinds of events and ended, with a late
\* fragment of the server left behind the success message.
C13_Witness ==
    /\ pred.pc = "done"
    /\ pred.events = <<"PromptProcessing", "FirstToken", "Fragment", "Result">>
    /\ pred.rx_queue = <<"fragment">>

\* C17: before any close(), at most one session is built per namespace and
\* every accessor call of a namespace returns the same session.
C17_OneSessionPerNamespace ==
    client.ncloses = 0 =>
        /\ \A ns \in Namespaces :
              Cardinality({k \in 1 .. Len(client.made) : client.made[k] = ns}) <= 1
        /\ \A a, b \in client.returned : a[1] = b[1] => a[2] = b[2]

\* C19: when close() has returned, no accessor call having run beside this
\* or an earlier close(), every session built was disconnected, the resource
\* stack is empty and the session map is empty.
C19_CloseEmptiesAll ==
    (client.cpc = "idle" /\ client.alone /\ ~client.overlap) =>
        /\ \A k \in 1 .. Len(client.made) : k \in Range(client.log)
        /\ client.stack = <<>>
        /\ \A ns \in Namespaces : client.sessions[ns] = NoSession

\* C21: act called with max_prediction_rounds < 1 ends with the value error
\* and nothing was done: no round started, no callback invoked, no
\* prediction requested, no tool run, nothing appended to the chat.
C21_ValueErrorFirst ==
    (act.pc # "off" /\ act.limited /\ act.max < 1) =>
        /\ act.pc = "valueerror"
        /\ act.started = 0
        /\ act.cbs = <<>>
        /\ act.tools_sent = <<>>
        /\ act.tool_results = <<>>
        /\ act.chat = <<>>

\* act was called with max_prediction_rounds = -1.
C21_Witness ==
    /\ act.pc = "valueerror"
    /\ act.max = -1

\* C22: the tool results of a round are in the order of the tool call
\* requests, whatever the order in which the tool calls complete.
C22_ResultsInRequestOrder ==
    \A j, k \in 1 .. Len(act.tool_results) :
        j < k => act.tool_results[j] < act.tool_results[k]

\* C25: the rounds have the indices 0, 1, 2, ... one after another, a round
\* follows only a round with tool call requests, the loop ends after the
\* first round without one, and rounds is the number of rounds performed.
C25_State ==
    /\ act.pc \in {"predict", "collect", "exit", "returned"}
       => act.round_index = act.started - 1
    /\ act.pc = "round" => act.round_index = act.started
    /\ Len(act.tools_sent) = act.started
    /\ act.pc = "returned" => act.rounds = act.started
    /\ (act.pc \in {"exit", "returned"} /\ ~act.invalid) => act.requests = 0
C25_Step ==
    /\ (act.pc = "collect" /\ act.requests = 0) => act'.pc = "exit"
    /\ act'.started # act.started
       => /\ act'.started = act.started + 1
          /\ act.started = 0 \/ act.requests > 0
C25_RoundsInOrder == []C25_State /\ [][C25_Step]_vars

\* Without a limit act made three rounds, the last one without a request.
C25_Witness ==
    /\ act.pc = "returned"
    /\ ~act.limited
    /\ act.rounds = 3
    /\ act.requests = 0

\* C23: the channel of a prediction stream is created at most once: a
\* start() of a stream that is started or finished raises the runtime error
\* and sends nothing, and the stream is iterated to its end at most once.
C23_State ==
    /\ pred.ncreate <= 1
    /\ pred.ncomplete <= 1
C23_Step ==
    /\ (pred'.nstart # pred.nstart /\ (pred.is_started \/ pred.is_finished))
       => /\ pred'.nerr = pred.nerr + 1
          /\ pred'.ncreate = pred.ncreate
          /\ pred'.pc = pred.pc
    /\ pred'.ncreate # pred.ncreate
       => ~pred.is_started /\ ~pred.is_finished
C23_StartOnce == []C23_State /\ [][C23_Step]_vars

\* A stream was started and iterated to its end, and two more starts failed.
C23_Witness ==
    /\ pred.ncomplete = 1
    /\ pred.is_finished
    /\ pred.nerr = 2

\* C24: Session.disconnect() leaves the session without a websocket; the
\* next operation then connects: a websocket object not used before, with a
\* handshake of its own. The session never holds a websocket that was
\* disconnected.
C24_State ==
    /\ lmsws # NoWs => ws[lmsws].thread /\ ~ws[lmsws].notified
    /\ Cardinality({w \in W : ws[w].thread \/ ws[w].notified}) <= handshakes
C24_Step ==
    /\ (dis.pc = "idle" /\ dis'.pc # "idle")
       => lmsws' = NoWs /\ resources' = <<>>
    /\ \A t \in Threads :
          /\ (th[t].pc = "idle" /\ th'[t].pc # "idle" /\ lmsws = NoWs)
             => th'[t].pc = "connect"
          /\ (th[t].pc = "connect" /\ th'[t].pc = "waitconn")
             => /\ th'[t].w = nconn + 1
                /\ ws[nconn + 1].tpc = "unstarted"
                /\ ~ws[nconn + 1].attempted
    /\ (lmsws' # lmsws /\ lmsws' # NoWs)
       => /\ ~ws[lmsws'].thread /\ ~ws[lmsws'].notified
          /\ ws[lmsws'].tws
C26_ShutdownOrdered ==
    \A w \in W :
        ws[w].notified => ws[w].terminate /\ ws[w].tpc \in {"cleared", "dead"}

\* C27: an operation is registered exactly from the entry of its
\* assign_call_id / assign_channel_id scope to the exit: its id was handed
\* out by the multiplexer, its first frame is sent while it is registered,
\* and it is not registered once it has ended, also when the send failed.
C27_State ==
    /\ \A t \in Threads :
          /\ th[t].registered <=> th[t].pc \in {"send", "recv", "open"}
          /\ th[t].registered
             => th[t].id \in Range(IF th[t].kind = "call"
                                   THEN ws[th[t].w].calls ELSE ws[th[t].w].chans)
    /\ \A w \in W :
          /\ ws[w].called \subseteq Range(ws[w].calls)
          /\ ws[w].created \subseteq Range(ws[w].chans)
C27_Step ==
    \A w \in W :
        /\ \A i \in ws'[w].called \ ws[w].called :
              \E t \in Registered(w) : th[t].kind = "call" /\ th[t].id = i
        /\ \A i \in ws'[w].created \ ws[w].created :
              \E t \in Registered(w) : th[t].kind = "chan" /\ th[t].id = i
C27_ScopedRegistration == []C27_State /\ [][C27_Step]_vars

\* The first frame of an operation could not be sent and the operation has
\* ended unregistered, while another operation has returned its result.
C27_Witness ==
    \E t, u \in Threads :
        /\ th[t].pc = "done"
        /\ th[t].outcome \in {"txerror", "assertion", "notconnected"}
        /\ ~th[t].registered
        /\ th[u].pc = "done" /\ th[u].outcome = "result"

\* C28: the queue of a finished channel whose scope is still open changes
\* only by the shutdown sentinel, put on it once.
C28_Step ==
    \A t \in Threads :
        (/\ th[t].pc = "open" /\ th[t].is_finished
         /\ th'[t].pc = "open"
         /\ th'[t].rx_queue # th[t].rx_queue)
        => /\ th'[t].rx_queue = Append(th[t].rx_queue, Sentinel)
           /\ Sentinel \notin Range(th[t].rx_queue)
C28_NothingAfterFinished == [][C28_Step]_vars

\* C29: a frame received after the shutdown sentinels were delivered is put
\* on no queue that holds the sentinel.
C29_Step ==
    \A t \in Threads :
        (/\ th[t].registered
         /\ Sentinel \in Range(th[t].rx_queue)
         /\ th'[t].delivered > th[t].delivered)
        => ~ws[th[t].w].rxLate
C29_NothingBehindSentinel == [][C29_Step]_vars

\* C30: when _enqueue_message finds no queue registered for the frame, no
\* queue and no caller changes, the frame is gone and the receive loop is
\* where it was.
C30_Step ==
    \A w \in W :
        (/\ Len(ws'[w].rxPending) < Len(ws[w].rxPending)
         /\ \A k \in 1 .. Len(ws[w].rxPending) :
                MapRxMessage(w, ws[w].rxPending[k]) = {})
        => /\ th' = th
           /\ ws'[w].tpc = ws[w].tpc
           /\ ws'[w].dropped
C30_UnregisteredDropped == [][C30_Step]_vars

\* A frame was dropped on a connection whose receive loop runs and on which
\* another operation is registered and has been delivered a frame.
C30_Witness ==
    \E w \in W, t \in Threads :
        /\ ws[w].dropped
        /\ ws[w].tpc = "running"
        /\ ws[w].rxPending = <<>>
        /\ th[t].registered /\ th[t].w = w
        /\ th[t].delivered > 0

\* The place of step x in the steps of the round, 0 if it is not among them.
StepAt(x) ==
    IF \E k \in 1 .. Len(act.steps) : act.steps[k] = x
    THEN CHOOSE k \in 1 .. Len(act.steps) : act.steps[k] = x
    ELSE 0

\* C34: in a round with tool call requests the tool calls have all completed
\* when their results are collected, the assistant response is appended to
\* the chat after that and the tool results after it; the request of the
\* next round is built from the chat that ends with both.
C34_State ==
    /\ (act.steps # <<>> /\ act.requests > 0)
       => /\ 0 < StepAt("await_tools")
          /\ StepAt("await_tools") < StepAt("append_requests")
          /\ StepAt("append_requests") < StepAt("append_results")
          /\ Len(act.completed) = act.requests
    /\ (act.pc \in {"predict", "collect"} /\ act.started > 1)
       => /\ act.history[act.started] = Len(act.chat)
          /\ act.chat[Len(act.chat) - 1] = "requests"
          /\ act.chat[Len(act.chat)] = "results"
C34_Step ==
    (act.pc = "collect" /\ act.requests > 0 /\ act'.pc # "collect")
    => /\ Len(act.completed) = act.requests
       /\ act'.chat = act.chat \o <<"requests", "results">>
C34_AwaitThenAppend == []C34_State /\ [][C34_Step]_vars

\* The request of the second round was built from the two messages that
\* the first round, which had tool call requests, appended to the chat.
C34_Witness ==
    /\ act.pc = "predict"
    /\ act.started = 2
    /\ act.tool_results = <<>>
    /\ act.history = <<0, 2>>

\* C35: the prediction completed and round end callbacks of a round with
\* tool call requests come after the tool results were appended to the chat.
C35_CallbacksAfterAppend ==
    (act.steps # <<>> /\ act.requests > 0)
    => /\ StepAt("append_results") < StepAt("prediction_completed")
       /\ StepAt("append_results") < StepAt("round_end")

\* C36: when act has returned or has raised the error of a round, every
\* tool call submitted to the pool has completed.
C36_PoolJoined ==
    act.pc \in {"returned", "failed"} => Len(act.completed) = act.requests

\* The prediction of a round failed after two tool calls were submitted;
\* act raised after both had completed.
C36_Witness ==
    /\ act.pc = "failed"
    /\ act.requests = 2
    /\ Len(act.completed) = 2

\* C37: entering a session or a websocket that is connected does not
\* connect again and nests, and every exit disconnects it, also one that
\* leaves outer with blocks active.
C37_Step ==
    /\ (cm.s_lmsws /\ cm'.s_ops # cm.s_ops /\ cm'.s_depth > cm.s_depth)
       => cm'.s_connects = cm.s_connects /\ cm'.s_lmsws
    /\ (cm.w_ws /\ cm'.w_ops # cm.w_ops /\ cm'.w_depth > cm.w_depth)
       => cm'.w_connects = cm.w_connects /\ cm'.w_ws
    /\ cm'.s_depth < cm.s_depth => ~cm'.s_lmsws
    /\ cm'.w_depth < cm.w_depth => ~cm'.w_ws
    /\ (cm.s_lmsws /\ cm'.s_ops # cm.s_ops) => cm'.s_depth # cm.s_depth
    /\ (cm.w_ws /\ cm'.w_ops # cm.w_ops) => cm'.w_depth # cm.w_depth
C37_Reentrancy == [][C37_Step]_vars

\* The session was entered twice with one connect and exited once: it is
\* disconnected while the outer with block is active; so is the websocket.
C37_Witness ==
    /\ cm.s_depth = 1 /\ cm.s_ops = 3 /\ cm.s_connects = 1 /\ ~cm.s_lmsws
    /\ cm.w_depth = 1 /\ cm.w_ops = 3 /\ cm.w_connects = 1 /\ ~cm.w_ws

\* C31: every operation on the transport (connect, send, receive, close) is
\* carried out by the background thread; a caller of send_json waits exactly
\* while its send is with the loop, and a frame it has sent was written by
\* the background thread.
C31_OnPumpThread ==
    /\ \A o \in pump.ops : o.by = "pump"
    /\ \A c \in Callers :
          /\ pump.cpc[c] = "waiting" <=> c \in Range(pump.loopq) \cup pump.writing
          /\ pump.outcome[c] = "sent" => Op("send", "pump") \in pump.ops

\* A caller's frame was sent, a frame was received and the connection was
\* closed.
C31_Witness ==
    /\ \E c \in Callers : pump.outcome[c] = "sent"
    /\ pump.nrecv = 1
    /\ Op("close", "pump") \in pump.ops

\* The place of caller c's send among the sends handed to the loop.
SubmittedAt(c) == CHOOSE k \in 1 .. Len(pump.submitted) : pump.submitted[k] = c

\* C32: the frames are given to the transport in the order in which their
\* sends were handed to the loop, and at most one send is inside the
\* transport's send at a time.
C32_WritesSerialized ==
    /\ \A j, k \in 1 .. Len(pump.wire) :
          j < k => SubmittedAt(pump.wire[j]) < SubmittedAt(pump.wire[k])
    /\ Cardinality(pump.writing) <= 1

\* C33: a caller waiting in connect() is released.
C33_ConnectReleased == (pump.conn = "waiting") ~> (pump.conn = "returned")

\* connect() has returned False after an exception during the handshake:
\* no failure was recorded and the thread has ended.
C33_Witness ==
    /\ pump.conn = "returned"
    /\ ~pump.result
    /\ pump.failure = "none"
    /\ pump.tpc = "dead"

\* C38: when the receive task has stopped by itself, the terminate flag is
\* set.
C38_TerminateOnStop == pump.rx = "stopped" => pump.terminate

\* C40: after a transport failure seen by the receive task, no send_json of
\* a caller fails on an assertion or on a closed loop or is left waiting for
\* a thread that has ended, and disconnect() does not fail.
C40_HandoffCompletes ==
    pump.failed =>
        /\ \A c \in Callers :
              /\ pump.outcome[c] \notin {"assertion", "loop_closed"}
              /\ ~(pump.cpc[c] = "waiting" /\ pump.tpc = "dead")
        /\ pump.dis # "failed"

\* A connect that has failed in the background thread (no transport failure
\* later, no disconnect).
FailedConnect(w) ==
    /\ ws[w].attempted
    /\ ws[w].tpc = "dead"
    /\ ~ws[w].failed
    /\ ~ws[w].notified

\* C39: after a connect that failed the session holds no websocket of it,
\* the websocket object holds no thread and the thread has ended, with
\* neither websocket nor loop; the caller gets the error, and the next
\* operation connects with a new websocket object.
C39_State ==
    \A w \in W :
        FailedConnect(w)
        => /\ lmsws # w
           /\ ~ws[w].thread
           /\ ~ws[w].tws /\ ~ws[w].tloop
           /\ \A k \in 1 .. Len(resources) : resources[k] # w
           /\ \A t \in Threads : th[t].registered => th[t].w # w
C39_Step ==
    \A t \in Threads :
        /\ (th[t].pc = "waitconn" /\ th'[t].pc = "done")
           => /\ th'[t].outcome \in {"autherror", "connecterror"}
              /\ lmsws' = lmsws /\ resources' = resources
        /\ (th[t].pc = "connect" /\ th'[t].pc = "waitconn")
           => ~FailedConnect(th'[t].w)
C39_FailedConnectLeavesDisconnected == []C39_State /\ [][C39_Step]_vars

\* The connect of one operation failed; the next operation connected with
\* the second websocket object and is registered on it.
C39_Witness ==
    \E t, u \in Threads :
        /\ th[t].pc = "done"
        /\ th[t].outcome \in {"autherror", "connecterror"}
        /\ FailedConnect(1)
        /\ lmsws = 2
        /\ th[u].registered /\ th[u].w = 2

====
